---------------------------- MODULE Spec2Model ----------------------------
(***************************************************************************)
(* The telemetry plotting scripts of the repository, as one state machine. *)
(* Each script is a straight-line pandas/matplotlib pipeline; a behaviour  *)
(* picks a script and the contents of its stats.csv, then runs the         *)
(* script's statements in order.                                           *)
(*                                                                         *)
(*   T1   src/Trabalho-1/plot_python.py       clicks over time             *)
(*   T3   src/Trabalho-3/plot_python.py       points and memory over time  *)
(*   T5   src/trabalho-5/plot_python.py       mean cost per key, shared y  *)
(*   T11  src/trabalho-11/plot_python.py      extra steps over time        *)
(*   S11  src/trabalho-11/src/plot_python.py  final results per method     *)
(*                                                                         *)
(* src/trabalho-4/plot_python.py (time by points amount) neither groups,   *)
(* derives nor plots against time and is not modelled.                     *)
(*                                                                         *)
(* Columns that no modelled statement distinguishes from a modelled one    *)
(* are left out of the rows (one y-column per time plot stands for all of  *)
(* them; the timestamp column of T5 is converted and never read again).    *)
(***************************************************************************)
EXTENDS Integers, Sequences, FiniteSets, TLC

VARIABLES script, csv, pc, df, groups, final, start_group, obstacle_group,
          y_min, y_max, plots

vars == <<script, csv, pc, df, groups, final, start_group, obstacle_group,
          y_min, y_max, plots>>

---------------------------------------------------------------------------
(* Bounds of the model *)

\* most rows a stats.csv holds
MaxRows == 3

\* the instants a well-formed timestamp text can denote
Instants == {1, 2}

\* sample values of the numeric columns
StepValues == {3, 10}
TimeValues == {10, 20}
StartValues == {1, 2}
ObstacleValues == {1}
PlannedValues == {12}
ActualValues == {0, 3}
ClickValues == {0, 1}

\* the method names groupby can meet, in the order it sorts them
AlphabeticalMethods == <<"GRID", "ORCA", "PATH", "RVO">>

\* the method names a modelled log carries
MethodNames == {"GRID", "PATH", "RVO"}

---------------------------------------------------------------------------
(* float64 cells: a finite value n/d in lowest terms, NaN, or +-inf *)

RECURSIVE Gcd(_, _)
Gcd(a, b) == IF b = 0 THEN a ELSE Gcd(b, a % b)

Abs(n) == IF n < 0 THEN -n ELSE n

NaN == [k |-> "nan", n |-> 0, d |-> 1]
PosInf == [k |-> "inf", n |-> 1, d |-> 0]
NegInf == [k |-> "inf", n |-> -1, d |-> 0]

\* the finite float n/d, d # 0, normalised
Frac(n, d) ==
    LET g == Gcd(Abs(n), Abs(d))
        s == IF d < 0 THEN -1 ELSE 1
    IN  [k |-> "num", n |-> (s * n) \div g, d |-> (s * d) \div g]

F(n) == Frac(n, 1)

IsNaN(x) == x.k = "nan"
IsNum(x) == x.k = "num"

\* x < y on floats; any comparison with NaN is false
Less(x, y) ==
    /\ ~IsNaN(x)
    /\ ~IsNaN(y)
    /\ IF IsNum(x) /\ IsNum(y) THEN x.n * y.d < y.n * x.d
       ELSE IF IsNum(x) THEN y = PosInf
       ELSE IF IsNum(y) THEN x = NegInf
       ELSE x = NegInf /\ y = PosInf

\* elementwise Series - Series
Sub(x, y) ==
    IF IsNaN(x) \/ IsNaN(y) THEN NaN
    ELSE Frac(x.n * y.d - y.n * x.d, x.d * y.d)

\* elementwise Series / Series on float64 (IEEE division, no exception)
Div(x, y) ==
    IF IsNaN(x) \/ IsNaN(y) THEN NaN
    ELSE IF y.n = 0
         THEN IF x.n > 0 THEN PosInf ELSE IF x.n < 0 THEN NegInf ELSE NaN
         ELSE Frac(x.n * y.d, x.d * y.n)

\* mutant of ClipLower: the clip is left out
ClipLowerLeftOut(x, lo) == x

\* Series.clip(lower=lo): NaN stays NaN
ClipLower(x, lo) == IF IsNaN(x) THEN NaN ELSE IF Less(x, lo) THEN lo ELSE x

\* Python's builtin min(a, b) / max(a, b): b replaces a only if b < a (b > a)
PyMin(a, b) == IF Less(b, a) THEN b ELSE a
PyMax(a, b) == IF Less(a, b) THEN b ELSE a

---------------------------------------------------------------------------
(* timestamp cells *)

\* the text of a well-formed timestamp denoting instant t; at = 0 is text
\* that no datetime parser accepts
Text(t) == [kind |-> "text", at |-> t]
BadText == [kind |-> "text", at |-> 0]
Stamp(t) == [kind |-> "datetime", at |-> t]
NaT == [kind |-> "NaT", at |-> 0]

TimestampTexts == {Text(t) : t \in Instants} \cup {BadText}

\* pd.to_datetime(cell, errors="coerce")
ToDatetimeCoerce(c) == IF c.at = 0 THEN NaT ELSE Stamp(c.at)

---------------------------------------------------------------------------
(* DataFrame helpers *)

\* every sequence over S of length at most n
SeqsUpTo(S, n) == UNION {[1..m -> S] : m \in 0..n}

\* pd.read_csv gives the rows a RangeIndex; here the labels are 1..n
WithIndex(rows) == [i \in DOMAIN rows |-> [index |-> i] @@ rows[i]]

\* read_csv(parse_dates=["timestamp"]): the column becomes datetime when
\* every cell parses, and is left as the text it was otherwise
ParseDates(rows) ==
    IF \A i \in DOMAIN rows : rows[i].timestamp.at # 0
    THEN [i \in DOMAIN rows |->
            [rows[i] EXCEPT !.timestamp = Stamp(rows[i].timestamp.at)]]
    ELSE rows

\* df[col] as a sequence of cells
Column(d, col) == [i \in DOMAIN d |-> d[i][col]]

\* the (x, y) points handed to plt.plot / plt.bar
Points(d, xcol, ycol) == [i \in DOMAIN d |-> <<d[i][xcol], d[i][ycol]>>]

Range(s) == {s[i] : i \in DOMAIN s}

\* the distinct elements of a sequence in the order each is first met
RECURSIVE FirstSeen(_)
FirstSeen(s) ==
    IF s = <<>> THEN <<>>
    ELSE LET rest == FirstSeen(SubSeq(s, 1, Len(s) - 1))
             last == s[Len(s)]
         IN  IF last \in Range(rest) THEN rest ELSE Append(rest, last)

Reverse(s) == [i \in DOMAIN s |-> s[Len(s) + 1 - i]]

\* the distinct elements of a sequence in the order each is last met
LastSeen(s) == Reverse(FirstSeen(Reverse(s)))

\* the permutations of 1..n
Perms(n) == {p \in [1..n -> 1..n] : \A i, j \in 1..n : i # j => p[i] # p[j]}

\* datetime order used by sort_values: NaT sorts last
TimeLeq(a, b) ==
    IF a.kind = "NaT" THEN b.kind = "NaT"
    ELSE b.kind = "NaT" \/ a.at <= b.at

\* the outcomes of df.sort_values("timestamp"): the default quicksort is not
\* stable, so every ordering of the rows with non-decreasing timestamps
SortValuesOutcomes(d) ==
    {s \in {[i \in DOMAIN d |-> d[p[i]]] : p \in Perms(Len(d))} :
        \A i \in 1..(Len(s) - 1) : TimeLeq(s[i].timestamp, s[i + 1].timestamp)}

RECURSIVE SortedCells(_)
\* a finite set of non-NaN floats as an ascending sequence
SortedCells(S) ==
    IF S = {} THEN <<>>
    ELSE LET m == CHOOSE x \in S : \A y \in S : ~Less(y, x)
         IN  <<m>> \o SortedCells(S \ {m})

\* mutant of NumericGroupKeys: groupby(key, sort=False), keys as first seen
NumericGroupKeysUnsorted(d, key) ==
    LET Present(c) == ~IsNaN(c)
    IN  FirstSeen(SelectSeq(Column(d, key), Present))

\* the group keys of df.groupby(key) (sort=True, dropna=True) for a float key
NumericGroupKeys(d, key) == SortedCells({c \in Range(Column(d, key)) : ~IsNaN(c)})

\* the group keys of df.groupby("method_name"), in sorted order
MethodGroupKeys(d) ==
    LET Present(m) == m \in Range(Column(d, "method_name"))
    IN  SelectSeq(AlphabeticalMethods, Present)

\* the rows of d whose key cell equals k, in row order
RowsWithKey(d, key, k) ==
    LET Test(r) == r[key] = k
    IN  SelectSeq(d, Test)

\* df.groupby(key): one group per key, each holding its rows in row order
GroupBy(d, key, keys) ==
    [g \in DOMAIN keys |->
        [key |-> keys[g], rows |-> RowsWithKey(d, key, keys[g])]]

RECURSIVE SumCells(_)
SumCells(s) ==
    IF s = <<>> THEN F(0)
    ELSE LET h == Head(s)
             t == SumCells(Tail(s))
         IN  Frac(h.n * t.d + t.n * h.d, h.d * t.d)

\* mutant of Mean: absent values are counted as zeros (fillna(0) before mean)
MeanCountingAbsent(cells) ==
    LET Present(c) == ~IsNaN(c)
        total == SumCells(SelectSeq(cells, Present))
    IN  IF cells = <<>> THEN NaN
        ELSE Frac(total.n, total.d * Len(cells))

\* Series.mean() (skipna=True): NaN when no value is present
Mean(cells) ==
    LET Present(c) == ~IsNaN(c)
        present == SelectSeq(cells, Present)
        total == SumCells(present)
    IN  IF present = <<>> THEN NaN
        ELSE Frac(total.n, total.d * Len(present))

\* df.groupby(key)[col].mean().reset_index()
GroupMeans(grouping, key, col) ==
    [g \in DOMAIN grouping |->
        (key :> grouping[g].key) @@ (col :> Mean(Column(grouping[g].rows, col)))]

\* Series.min() / Series.max() (skipna=True): NaN when no value is present
SeriesMin(cells) ==
    LET present == {c \in Range(cells) : ~IsNaN(c)}
    IN  IF present = {} THEN NaN
        ELSE CHOOSE m \in present : \A c \in present : ~Less(c, m)

SeriesMax(cells) ==
    LET present == {c \in Range(cells) : ~IsNaN(c)}
    IN  IF present = {} THEN NaN
        ELSE CHOOSE m \in present : \A c \in present : ~Less(m, c)

\* df.groupby("method_name").tail(1): the last row of every group, the rows
\* kept in the order they have in df
TailOne(d) ==
    LET idx == {i \in DOMAIN d :
                   \A j \in DOMAIN d : j > i => d[j].method_name # d[i].method_name}
        Keep(r) == \E i \in idx : d[i] = r
    IN  SelectSeq(d, Keep)

\* mutant of IsinFilter: the filter is left out
IsinFilterLeftOut(d) == d

\* df[df["method_name"].isin(["GRID", "PATH", "ORCA"])]
IsinFilter(d) ==
    LET Keep(r) == r.method_name \in {"GRID", "PATH", "ORCA"}
    IN  SelectSeq(d, Keep)

\* df["extra_steps"] = (df[a] - df[b]).clip(lower=0)
WithExtraSteps(d) ==
    [i \in DOMAIN d |->
        [extra_steps |->
            ClipLower(Sub(d[i].how_many_steps_agents_made,
                          d[i].total_agents_path_length), F(0))] @@ d[i]]

\* mutant of WithPathEfficiency: rows with a zero actual_distance are dropped
\* before the division
WithPathEfficiencyDroppingZero(d) ==
    LET NonZero(r) == r.actual_distance # F(0)
        kept == SelectSeq(d, NonZero)
    IN  [i \in DOMAIN kept |->
            [path_efficiency |->
                Div(kept[i].total_path_length, kept[i].actual_distance)]
                @@ kept[i]]

\* final["path_efficiency"] = final["total_path_length"] / final["actual_distance"]
WithPathEfficiency(d) ==
    [i \in DOMAIN d |->
        [path_efficiency |-> Div(d[i].total_path_length, d[i].actual_distance)]
            @@ d[i]]

\* matplotlib refuses NaN and infinite axis limits (ValueError)
ValidLimit(x) == IsNum(x)

---------------------------------------------------------------------------
(* the contents stats.csv can have, per script *)

NumCells(S) == {F(v) : v \in S}

T1Rows == [timestamp : TimestampTexts, number_of_clicks : NumCells(ClickValues)]

T3Rows == [timestamp : TimestampTexts, memory_kb : NumCells(ClickValues)]

T5Rows == [start_points : NumCells(StartValues) \cup {NaN},
           obstacles_amount : NumCells(ObstacleValues) \cup {NaN},
           time_to_finish_in_micros : NumCells(TimeValues) \cup {NaN}]

\* the log of trabalho-11 is modelled with well-formed timestamps only: the
\* order sort_values gives a text column depends on the malformed text itself
T11Rows == [timestamp : {Text(t) : t \in Instants},
            how_many_steps_agents_made : NumCells(StepValues) \cup {NaN},
            total_agents_path_length : NumCells(StepValues)]

S11Rows == [timestamp : TimestampTexts,
            method_name : MethodNames,
            total_path_length : NumCells(PlannedValues),
            actual_distance : NumCells(ActualValues)]

RowsOf(sc) ==
    CASE sc = "T1" -> T1Rows
      [] sc = "T3" -> T3Rows
      [] sc = "T5" -> T5Rows
      [] sc = "T11" -> T11Rows
      [] sc = "S11" -> S11Rows

Scripts == {"T1", "T3", "T5", "T11", "S11"}

\* a drawn artist: its points, and the y-limits set on its axes (<<>> if none)
Artist(points, ylim) == [points |-> points, ylim |-> ylim]

Init ==
    /\ script \in Scripts
    /\ csv \in SeqsUpTo(RowsOf(script), MaxRows)
    /\ pc = "read_csv"
    /\ df = <<>>
    /\ groups = <<>>
    /\ final = <<>>
    /\ start_group = <<>>
    /\ obstacle_group = <<>>
    /\ y_min = NaN
    /\ y_max = NaN
    /\ plots = <<>>

---------------------------------------------------------------------------
(* Trabalho-1 *)

T1_ReadCsv ==
    /\ script = "T1" /\ pc = "read_csv"
    /\ df' = WithIndex(csv)
    /\ pc' = "to_datetime"
    /\ UNCHANGED <<script, csv, groups, final, start_group, obstacle_group,
                   y_min, y_max, plots>>

T1_ToDatetime ==
    /\ script = "T1" /\ pc = "to_datetime"
    /\ df' = [i \in DOMAIN df |->
                [df[i] EXCEPT !.timestamp = ToDatetimeCoerce(df[i].timestamp)]]
    /\ pc' = "plot"
    /\ UNCHANGED <<script, csv, groups, final, start_group, obstacle_group,
                   y_min, y_max, plots>>

T1_Plot ==
    /\ script = "T1" /\ pc = "plot"
    /\ plots' = <<Artist(Points(df, "timestamp", "number_of_clicks"), <<>>)>>
    /\ pc' = "done"
    /\ UNCHANGED <<script, csv, df, groups, final, start_group, obstacle_group,
                   y_min, y_max>>

---------------------------------------------------------------------------
(* Trabalho-3 *)

T3_ReadCsv ==
    /\ script = "T3" /\ pc = "read_csv"
    /\ df' = ParseDates(WithIndex(csv))
    /\ pc' = "plot"
    /\ UNCHANGED <<script, csv, groups, final, start_group, obstacle_group,
                   y_min, y_max, plots>>

T3_Plot ==
    /\ script = "T3" /\ pc = "plot"
    /\ plots' = <<Artist(Points(df, "timestamp", "memory_kb"), <<>>)>>
    /\ pc' = "done"
    /\ UNCHANGED <<script, csv, df, groups, final, start_group, obstacle_group,
                   y_min, y_max>>

---------------------------------------------------------------------------
(* trabalho-5 *)

T5_ReadCsv ==
    /\ script = "T5" /\ pc = "read_csv"
    /\ df' = WithIndex(csv)
    /\ pc' = "groupby"
    /\ UNCHANGED <<script, csv, groups, final, start_group, obstacle_group,
                   y_min, y_max, plots>>

T5_GroupMeans ==
    /\ script = "T5" /\ pc = "groupby"
    /\ LET by_start == GroupBy(df, "start_points",
                               NumericGroupKeys(df, "start_points"))
           by_obstacles == GroupBy(df, "obstacles_amount",
                                   NumericGroupKeys(df, "obstacles_amount"))
       IN  /\ groups' = [start_points |-> by_start,
                         obstacles_amount |-> by_obstacles]
           /\ start_group' = GroupMeans(by_start, "start_points",
                                        "time_to_finish_in_micros")
           /\ obstacle_group' = GroupMeans(by_obstacles, "obstacles_amount",
                                           "time_to_finish_in_micros")
    /\ pc' = "limits"
    /\ UNCHANGED <<script, csv, df, final, y_min, y_max, plots>>

T5_Limits ==
    /\ script = "T5" /\ pc = "limits"
    /\ y_min' = PyMin(SeriesMin(Column(start_group, "time_to_finish_in_micros")),
                      SeriesMin(Column(obstacle_group, "time_to_finish_in_micros")))
    /\ y_max' = PyMax(SeriesMax(Column(start_group, "time_to_finish_in_micros")),
                      SeriesMax(Column(obstacle_group, "time_to_finish_in_micros")))
    /\ pc' = "plot_start"
    /\ UNCHANGED <<script, csv, df, groups, final, start_group, obstacle_group,
                   plots>>

\* axes[0].plot(...) then axes[0].set_ylim(y_min, y_max), which raises on a
\* NaN limit and ends the script
T5_PlotStart ==
    /\ script = "T5" /\ pc = "plot_start"
    /\ LET points == Points(start_group, "start_points",
                            "time_to_finish_in_micros")
       IN  IF ValidLimit(y_min) /\ ValidLimit(y_max)
           THEN /\ plots' = <<Artist(points, <<y_min, y_max>>)>>
                /\ pc' = "plot_obstacles"
           ELSE /\ plots' = <<Artist(points, <<>>)>>
                /\ pc' = "raised"
    /\ UNCHANGED <<script, csv, df, groups, final, start_group, obstacle_group,
                   y_min, y_max>>

T5_PlotObstacles ==
    /\ script = "T5" /\ pc = "plot_obstacles"
    /\ plots' = Append(plots,
                       Artist(Points(obstacle_group, "obstacles_amount",
                                     "time_to_finish_in_micros"),
                              <<y_min, y_max>>))
    /\ pc' = "done"
    /\ UNCHANGED <<script, csv, df, groups, final, start_group, obstacle_group,
                   y_min, y_max>>

---------------------------------------------------------------------------
(* trabalho-11 *)

T11_ReadCsv ==
    /\ script = "T11" /\ pc = "read_csv"
    /\ df' = ParseDates(WithIndex(csv))
    /\ pc' = "sort_values"
    /\ UNCHANGED <<script, csv, groups, final, start_group, obstacle_group,
                   y_min, y_max, plots>>

T11_SortValues ==
    /\ script = "T11" /\ pc = "sort_values"
    /\ df' \in SortValuesOutcomes(df)
    /\ pc' = "extra_steps"
    /\ UNCHANGED <<script, csv, groups, final, start_group, obstacle_group,
                   y_min, y_max, plots>>

T11_ExtraSteps ==
    /\ script = "T11" /\ pc = "extra_steps"
    /\ df' = WithExtraSteps(df)
    /\ pc' = "plot"
    /\ UNCHANGED <<script, csv, groups, final, start_group, obstacle_group,
                   y_min, y_max, plots>>

T11_Plot ==
    /\ script = "T11" /\ pc = "plot"
    /\ plots' = <<Artist(Points(df, "timestamp", "how_many_steps_agents_made"), <<>>),
                  Artist(Points(df, "timestamp", "total_agents_path_length"), <<>>),
                  Artist(Points(df, "timestamp", "extra_steps"), <<>>)>>
    /\ pc' = "done"
    /\ UNCHANGED <<script, csv, df, groups, final, start_group, obstacle_group,
                   y_min, y_max>>

---------------------------------------------------------------------------
(* trabalho-11/src *)

S11_ReadCsv ==
    /\ script = "S11" /\ pc = "read_csv"
    /\ df' = ParseDates(WithIndex(csv))
    /\ pc' = "isin"
    /\ UNCHANGED <<script, csv, groups, final, start_group, obstacle_group,
                   y_min, y_max, plots>>

S11_Isin ==
    /\ script = "S11" /\ pc = "isin"
    /\ df' = IsinFilter(df)
    /\ pc' = "tail"
    /\ UNCHANGED <<script, csv, groups, final, start_group, obstacle_group,
                   y_min, y_max, plots>>

S11_Tail ==
    /\ script = "S11" /\ pc = "tail"
    /\ groups' = [method_name |-> GroupBy(df, "method_name", MethodGroupKeys(df))]
    /\ final' = TailOne(df)
    /\ pc' = "path_efficiency"
    /\ UNCHANGED <<script, csv, df, start_group, obstacle_group, y_min, y_max,
                   plots>>

S11_PathEfficiency ==
    /\ script = "S11" /\ pc = "path_efficiency"
    /\ final' = WithPathEfficiency(final)
    /\ pc' = "bar"
    /\ UNCHANGED <<script, csv, df, groups, start_group, obstacle_group,
                   y_min, y_max, plots>>

S11_Bar ==
    /\ script = "S11" /\ pc = "bar"
    /\ plots' = <<Artist(Points(final, "method_name", "path_efficiency"), <<>>),
                  Artist(Points(final, "method_name", "actual_distance"), <<>>)>>
    /\ pc' = "done"
    /\ UNCHANGED <<script, csv, df, groups, final, start_group, obstacle_group,
                   y_min, y_max>>

---------------------------------------------------------------------------

Next ==
    \/ T1_ReadCsv \/ T1_ToDatetime \/ T1_Plot
    \/ T3_ReadCsv \/ T3_Plot
    \/ T5_ReadCsv \/ T5_GroupMeans \/ T5_Limits \/ T5_PlotStart
    \/ T5_PlotObstacles
    \/ T11_ReadCsv \/ T11_SortValues \/ T11_ExtraSteps \/ T11_Plot
    \/ S11_ReadCsv \/ S11_Isin \/ S11_Tail \/ S11_PathEfficiency \/ S11_Bar

Spec == Init /\ [][Next]_vars

---------------------------------------------------------------------------
(* Vocabulary of the properties *)

AllowedMethods == {"GRID", "PATH", "ORCA"}

S11Reduced == script = "S11" /\ pc \in {"path_efficiency", "bar", "done"}
S11Derived == script = "S11" /\ pc \in {"bar", "done"}
T5Reduced == script = "T5" /\ pc \in {"limits", "plot_start", "plot_obstacles",
                                      "raised", "done"}
T5Ranged == script = "T5" /\ pc \in {"plot_start", "plot_obstacles", "raised",
                                     "done"}
T11Derived == script = "T11" /\ pc \in {"plot", "done"}

\* the row of final that summarises method m
FinalOf(m) == CHOOSE r \in Range(final) : r.method_name = m

---------------------------------------------------------------------------
(* C1 *)

\* C1: when every timestamp parses, the row kept for a method is the
\* chronologically last row of that method in the log: no row of the method
\* has a greater timestamp, nor an equal timestamp at a later input position.
C1_LastIsChronologicallyLast ==
    (S11Reduced /\ \A i \in DOMAIN csv : csv[i].timestamp # BadText) =>
        \A i \in DOMAIN csv :
            csv[i].method_name \in AllowedMethods =>
                /\ \E r \in Range(final) : r.method_name = csv[i].method_name
                /\ LET r == FinalOf(csv[i].method_name)
                   IN  \/ csv[i].timestamp.at < csv[r.index].timestamp.at
                       \/ /\ csv[i].timestamp.at = csv[r.index].timestamp.at
                          /\ i <= r.index

---------------------------------------------------------------------------
(* C2 *)

\* the present cells of a column of the log, in row order
PresentCells(col) ==
    LET Present(c) == ~IsNaN(c)
    IN  SelectSeq(Column(csv, col), Present)

\* C2 as stated: the summaries carry the distinct key values of the log, one
\* each, in the order each key value is first seen in the log.
C2_FirstSeenOrder ==
    /\ S11Reduced =>
          Column(final, "method_name") = FirstSeen(Column(csv, "method_name"))
    /\ T5Reduced =>
          /\ Column(start_group, "start_points")
                = FirstSeen(PresentCells("start_points"))
          /\ Column(obstacle_group, "obstacles_amount")
                = FirstSeen(PresentCells("obstacles_amount"))

\* the keys of a mean summary: each present key value of the log once, ascending
AscendingPresentKeys(keys, cells) ==
    /\ Range(keys) = {c \in Range(cells) : ~IsNaN(c)}
    /\ \A i \in 1..(Len(keys) - 1) : Less(keys[i], keys[i + 1])

\* C2 amended: one summary per distinct key value the grouping keeps (a
\* method among GRID, PATH, ORCA; a present numeric key); the per-method
\* summaries stand in the order in which each method is last seen in the
\* log, the mean summaries in ascending key order.
C2_SummaryOrder ==
    /\ S11Reduced =>
          LET Allowed(m) == m \in AllowedMethods
          IN  Column(final, "method_name")
                  = LastSeen(SelectSeq(Column(csv, "method_name"), Allowed))
    /\ T5Reduced =>
          /\ AscendingPresentKeys(Column(start_group, "start_points"),
                                  Column(csv, "start_points"))
          /\ AscendingPresentKeys(Column(obstacle_group, "obstacles_amount"),
                                  Column(csv, "obstacles_amount"))

\* a log whose start_points are first seen in the order 2, 1 has been reduced
C2_Witness ==
    /\ T5Reduced
    /\ FirstSeen(Column(csv, "start_points")) = <<F(2), F(1)>>
    /\ Column(start_group, "start_points") = <<F(1), F(2)>>

---------------------------------------------------------------------------
(* C3 *)

IntMax(a, b) == IF a >= b THEN a ELSE b

\* C3: every record's extra_steps is max(0, how_many_steps_agents_made -
\* total_agents_path_length) when both inputs are present (and absent
\* otherwise), and it is never negative.
C3_ExtraStepsClipped ==
    T11Derived =>
        \A i \in DOMAIN df :
            LET a == df[i].how_many_steps_agents_made
                b == df[i].total_agents_path_length
                e == df[i].extra_steps
            IN  /\ ~Less(e, F(0))
                /\ IF IsNum(a) /\ IsNum(b)
                   THEN e = [k |-> "num", n |-> IntMax(0, a.n - b.n), d |-> 1]
                   ELSE IsNaN(e)

\* the log holds a = 3, b = 10 (clipped to 0) and a = 10, b = 3 (7)
C3_Witness ==
    /\ T11Derived
    /\ \E i, j \in DOMAIN df :
          /\ df[i].how_many_steps_agents_made = F(3)
          /\ df[i].total_agents_path_length = F(10)
          /\ df[i].extra_steps = F(0)
          /\ df[j].how_many_steps_agents_made = F(10)
          /\ df[j].total_agents_path_length = F(3)
          /\ df[j].extra_steps = F(7)

---------------------------------------------------------------------------
(* C4 *)

\* C4: a summary whose actual_distance is 0 has an absent path_efficiency,
\* and every kept method still has its summary.
C4_ZeroDenominatorAbsent ==
    S11Derived =>
        /\ \A r \in Range(final) :
              r.actual_distance = F(0) => IsNaN(r.path_efficiency)
        /\ \A i \in DOMAIN df :
              \E r \in Range(final) : r.method_name = df[i].method_name

---------------------------------------------------------------------------
(* C5 *)

\* the rows of the log whose key cell is k
LogRowsWithKey(key, k) == {i \in DOMAIN csv : csv[i][key] = k}

\* those of them whose time_to_finish_in_micros is present
Timed(rows) == {i \in rows : ~IsNaN(csv[i].time_to_finish_in_micros)}

RECURSIVE TotalTime(_)
\* the sum of the (integer) time_to_finish_in_micros over a set of log rows
TotalTime(rows) ==
    IF rows = {} THEN 0
    ELSE LET i == CHOOSE j \in rows : TRUE
         IN  csv[i].time_to_finish_in_micros.n + TotalTime(rows \ {i})

\* summary m is the arithmetic mean of the present values of the rows
IsMeanOf(m, rows) ==
    IF Timed(rows) = {} THEN IsNaN(m)
    ELSE /\ IsNum(m)
         /\ m.n * Cardinality(Timed(rows)) = m.d * TotalTime(Timed(rows))

\* C5: each group's summary is the arithmetic mean of the present
\* time_to_finish_in_micros values of the group, and is absent when the
\* group has no present value.
C5_MeanOfPresent ==
    T5Reduced =>
        /\ \A g \in DOMAIN start_group :
              IsMeanOf(start_group[g].time_to_finish_in_micros,
                       LogRowsWithKey("start_points", start_group[g].start_points))
        /\ \A g \in DOMAIN obstacle_group :
              IsMeanOf(obstacle_group[g].time_to_finish_in_micros,
                       LogRowsWithKey("obstacles_amount",
                                      obstacle_group[g].obstacles_amount))

\* one group averages 10, 20 and an absent value to 15, another group has
\* no present value and an absent summary
C5_Witness ==
    /\ T5Reduced
    /\ \E g, h \in DOMAIN start_group :
          /\ start_group[g].time_to_finish_in_micros = F(15)
          /\ IsNaN(start_group[h].time_to_finish_in_micros)
    /\ \E g \in DOMAIN obstacle_group :
          /\ obstacle_group[g].time_to_finish_in_micros = F(15)
          /\ \E i \in LogRowsWithKey("obstacles_amount",
                                     obstacle_group[g].obstacles_amount) :
                IsNaN(csv[i].time_to_finish_in_micros)

---------------------------------------------------------------------------
(* C6 *)

\* the groups of a grouping that hold the log row with index label i
GroupsHolding(grouping, i) ==
    {g \in DOMAIN grouping : \E j \in DOMAIN grouping[g].rows :
                                grouping[g].rows[j].index = i}

\* how often the log row with index label i occurs in the groups
Occurrences(grouping, i) ==
    Cardinality({<<g, j>> \in (DOMAIN grouping) \X (1..Len(csv)) :
                    /\ j \in DOMAIN grouping[g].rows
                    /\ grouping[g].rows[j].index = i})

Groupings == IF script = "S11" THEN {"method_name"}
                               ELSE {"start_points", "obstacles_amount"}

\* C6 as stated: every ingested record is in exactly one group of every
\* grouping.
C6_PartitionOfAllRecords ==
    (S11Reduced \/ T5Reduced) =>
        \A key \in Groupings : \A i \in DOMAIN csv :
            Occurrences(groups[key], i) = 1

\* the key of log row i is one the grouping keeps
KeptKey(key, i) ==
    IF key = "method_name" THEN csv[i].method_name \in AllowedMethods
    ELSE ~IsNaN(csv[i][key])

\* C6 amended: the groups partition exactly the records whose key the
\* grouping keeps (a present numeric key; a method among GRID, PATH, ORCA):
\* each such record is in exactly one group, the group of its key, and a
\* record with an absent key or another method name is in no group.
C6_PartitionOfKeptRecords ==
    (S11Reduced \/ T5Reduced) =>
        \A key \in Groupings : \A i \in DOMAIN csv :
            /\ Occurrences(groups[key], i) = (IF KeptKey(key, i) THEN 1 ELSE 0)
            /\ \A g \in GroupsHolding(groups[key], i) :
                  groups[key][g].key = csv[i][key]

\* a grouped log with a kept record, a record without start_points, and
\* two records sharing a group
C6_Witness ==
    /\ T5Reduced
    /\ \E i, j, h \in DOMAIN csv :
          /\ i # j
          /\ IsNaN(csv[h].start_points)
          /\ GroupsHolding(groups.start_points, h) = {}
          /\ GroupsHolding(groups.start_points, i) # {}
          /\ GroupsHolding(groups.start_points, i)
                = GroupsHolding(groups.start_points, j)

---------------------------------------------------------------------------
(* C7 *)

\* the present y-values of the two linked series
LinkedPoints ==
    {c \in Range(Column(start_group, "time_to_finish_in_micros"))
             \cup Range(Column(obstacle_group, "time_to_finish_in_micros")) :
        ~IsNaN(c)}

\* C7: when the linked series have a point, every point lies within
\* [y_min, y_max], both bounds are attained by a point, and every axes that
\* was given limits was given that pair.
C7_SharedRange ==
    (T5Ranged /\ LinkedPoints # {}) =>
        /\ y_min \in LinkedPoints
        /\ y_max \in LinkedPoints
        /\ \A c \in LinkedPoints : ~Less(c, y_min) /\ ~Less(y_max, c)
        /\ \A a \in DOMAIN plots :
              plots[a].ylim # <<>> => plots[a].ylim = <<y_min, y_max>>
        /\ pc = "done" => \A a \in DOMAIN plots : plots[a].ylim # <<>>

---------------------------------------------------------------------------
(* C8 *)

\* C8: a row whose timestamp does not parse stays in the record set with
\* its other fields, carries the invalid marker, and is never the row the
\* "last" reduction keeps.  (Whether a point with an invalid instant is
\* drawn is decided inside matplotlib, which the scripts hand the rows to.)
C8_InvalidTimestampExcluded ==
    /\ (script = "T1" /\ pc \in {"plot", "done"}) =>
          /\ Len(df) = Len(csv)
          /\ \A i \in DOMAIN df :
                /\ df[i].number_of_clicks = csv[i].number_of_clicks
                /\ csv[i].timestamp = BadText => df[i].timestamp = NaT
    /\ S11Reduced =>
          \A r \in Range(final) : csv[r.index].timestamp # BadText

---------------------------------------------------------------------------
(* C9 *)

\* C9: along every series drawn against the timestamp, the instants are
\* non-decreasing.
C9_TimeMonotone ==
    (script \in {"T1", "T3", "T11"} /\ pc = "done") =>
        \A a \in DOMAIN plots :
            \A i, j \in DOMAIN plots[a].points :
                (/\ i < j
                 /\ plots[a].points[i][1].kind = "datetime"
                 /\ plots[a].points[j][1].kind = "datetime")
                    => plots[a].points[i][1].at <= plots[a].points[j][1].at

---------------------------------------------------------------------------
(* C10 *)

\* table new is table old with exactly the column col added: same rows,
\* same order, same count, every old cell unchanged
AppendsColumn(old, new, col) ==
    /\ Len(new) = Len(old)
    /\ \A i \in DOMAIN old :
          /\ DOMAIN new[i] = DOMAIN old[i] \cup {col}
          /\ col \notin DOMAIN old[i]
          /\ \A f \in DOMAIN old[i] : new[i][f] = old[i][f]

\* C10: deriving extra_steps on the record set and path_efficiency on the
\* summary set appends exactly that column and changes nothing else.
C10_DerivationAppends ==
    [][/\ (script = "T11" /\ pc = "extra_steps")
            => AppendsColumn(df, df', "extra_steps")
       /\ (script = "S11" /\ pc = "path_efficiency")
            => /\ AppendsColumn(final, final', "path_efficiency")
               /\ df' = df]_vars

\* path_efficiency has been derived over two summaries, one of them with a
\* zero actual_distance
C10_Witness ==
    /\ S11Derived
    /\ Len(final) = 2
    /\ \E r \in Range(final) : r.actual_distance = F(0)
    /\ \A r \in Range(final) : "path_efficiency" \in DOMAIN r

=============================================================================
